---- MODULE Spec2Model ----
(***************************************************************************)
(* A model of tx (src/tx.go): one invocation of the command-line tool that *)
(* builds, signs, prints and optionally submits a Ripple transaction.      *)
(*                                                                         *)
(* One behaviour is one run of the process.  cfg is the parsed command     *)
(* line (and standard input); pc is the position of the single thread of   *)
(* control; every library call whose error the code hands to checkErr is   *)
(* a choice between the call succeeding and the call failing.              *)
(***************************************************************************)
EXTENDS Integers, Sequences, FiniteSets, TLC

VARIABLES
  cfg,        \* the parsed command line: global flags, command, command flags, stdin
  pc,         \* position of the thread of control
  key,        \* var key *crypto.RootDeterministicKey (process-wide)
  tx,         \* the transaction record being built / signed / emitted
  stdout,     \* what has been written to os.Stdout, in order
  exitCode,   \* the status the process ended with (read when pc = "exited")
  calls,      \* the functions of tx.go entered so far, in order
  crypto,     \* the cryptographic operations performed so far
  failed,     \* the stage whose error ended the run ("none" if no error did)
  remote      \* what the submission collaborator answered

vars == <<cfg, pc, key, tx, stdout, exitCode, calls, crypto, failed, remote>>

----------------------------------------------------------------------------
(* Bounds of the model *)

MaxFee == 1          \* --fee arguments range over 0..MaxFee
MaxLastLedger == 1   \* --lastledger arguments range over 0..MaxLastLedger
MaxSequence == 1     \* --sequence arguments range over 0..MaxSequence

(* Program constants *)

DefaultFee == 10     \* cli.IntFlag{Name: "fee,f", Value: 10}

(* Flag bits of rubblelabs/ripple/data, as the builders use them *)
TxNoDirectRipple == 65536
TxPartialPayment == 131072
TxLimitQuality == 262144
TxSetAuth == 65536
TxSetNoRipple == 131072
TxClearNoRipple == 262144
TxSetFreeze == 1048576
TxClearFreeze == 2097152

----------------------------------------------------------------------------
(* Input alphabets.  A text is "" (flag not given), well-formed or not.    *)

Seeds == {"", "sBadChecksum", "snoPBrXtMeMyMHUVTgbuqAfg1SUTb"}
ValidSeeds == {"snoPBrXtMeMyMHUVTgbuqAfg1SUTb"}
Accounts == {"", "notAnAddress", "rHb9CJAWyB4rj91VRWn96DkukG4bwdtyTh"}
ValidAccounts == {"rHb9CJAWyB4rj91VRWn96DkukG4bwdtyTh"}
Amounts == {"", "1e99/USD", "1/USD/rHb9CJAWyB4rj91VRWn96DkukG4bwdtyTh"}
ValidAmounts == {"1/USD/rHb9CJAWyB4rj91VRWn96DkukG4bwdtyTh"}
\* --fee: <<>> when the flag is not on the command line, <<n>> when it is
FeeArgs == {<<>>} \cup {<<n>> : n \in 0..MaxFee}

(* The submission collaborator's possible answers *)
EngineResults ==
  { [code |-> "tesSUCCESS",  message |-> "The transaction was applied."],
    [code |-> "tecPATH_DRY", message |-> "Path could not send partial amount."],
    [code |-> "terPRE_SEQ",  message |-> "Missing/inapplicable prior transaction."] }
ConnectError == "dial tcp: connection refused"
SubmitError == "websocket: close 1006 unexpected EOF"

NoReply == [type |-> "none", code |-> "", message |-> ""]
Reply(r) == [type |-> "result", code |-> r.code, message |-> r.message]
TransportError(m) == [type |-> "error", code |-> "", message |-> m]

----------------------------------------------------------------------------
(* Records *)

KeyNil == [nil |-> TRUE, seed |-> ""]
RootKey(s) == [nil |-> FALSE, seed |-> s]

\* The zero value of data.Value, and the result of data.NewNativeValue(n)
ZeroValue == [native |-> FALSE, num |-> 0]
NewNativeValue(n) == [native |-> TRUE, num |-> n]

\* Pointer fields are sequences: <<>> is nil, <<v>> points to v.
TxBase(type) ==
  [ TransactionType |-> type, Destination |-> "", Amount |-> "",
    QualityIn |-> <<>>, QualityOut |-> <<>>,
    Flags |-> <<>>, Account |-> "", Sequence |-> 0, Fee |-> ZeroValue,
    LastLedgerSequence |-> <<>>, SigningPubKey |-> <<>>, TxnSignature |-> <<>> ]
TxNil == TxBase("nil")

\* A signed transaction as it arrives on standard input of the submit command
StdinTx ==
  [ TxBase("Payment") EXCEPT
      !.Destination = "rHb9CJAWyB4rj91VRWn96DkukG4bwdtyTh",
      !.Amount = "1/USD/rHb9CJAWyB4rj91VRWn96DkukG4bwdtyTh",
      !.Flags = <<0>>, !.Account = "id(snoPBrXtMeMyMHUVTgbuqAfg1SUTb)",
      !.Sequence = 1, !.Fee = NewNativeValue(DefaultFee),
      !.SigningPubKey = <<"pub(snoPBrXtMeMyMHUVTgbuqAfg1SUTb)">>,
      !.TxnSignature = <<"signature">> ]
Stdins == {"garbage", "signedTx"}

----------------------------------------------------------------------------
(* Command lines *)

Commands == {"payment", "trust", "submit"}

Globals ==
  [ seed: Seeds, fee: FeeArgs, sequence: 0..MaxSequence,
    lastledger: 0..MaxLastLedger, submit: BOOLEAN, binary: BOOLEAN, json: BOOLEAN ]

NoPaymentFlags ==
  [dest |-> "", nodirect |-> FALSE, partial |-> FALSE, limit |-> FALSE]
NoTrustFlags ==
  [ auth |-> FALSE, noripple |-> FALSE, clearNoripple |-> FALSE,
    freeze |-> FALSE, clearFreeze |-> FALSE ]

PaymentFlagSets ==
  [dest: Accounts, nodirect: BOOLEAN, partial: BOOLEAN, limit: BOOLEAN]
TrustFlagSets ==
  [ auth: BOOLEAN, noripple: BOOLEAN, clearNoripple: BOOLEAN,
    freeze: BOOLEAN, clearFreeze: BOOLEAN ]

Config(cmd, g, amount, p, t, in) ==
  [ cmd |-> cmd, seed |-> g.seed, fee |-> g.fee, sequence |-> g.sequence,
    lastledger |-> g.lastledger, submit |-> g.submit, binary |-> g.binary,
    json |-> g.json, amount |-> amount, dest |-> p.dest,
    nodirect |-> p.nodirect, partial |-> p.partial, limit |-> p.limit,
    auth |-> t.auth, noripple |-> t.noripple, clearNoripple |-> t.clearNoripple,
    freeze |-> t.freeze, clearFreeze |-> t.clearFreeze, stdin |-> in ]

\* The command lines of the three commands; a command takes only its own flags
IsConfig(c) ==
  \/ \E g \in Globals, a \in Amounts, p \in PaymentFlagSets :
       c = Config("payment", g, a, p, NoTrustFlags, "")
  \/ \E g \in Globals, a \in Amounts, t \in TrustFlagSets :
       c = Config("trust", g, a, NoPaymentFlags, t, "")
  \/ \E g \in Globals, in \in Stdins :
       c = Config("submit", g, "", NoPaymentFlags, NoTrustFlags, in)

----------------------------------------------------------------------------
(* The cli.Context accessors the code uses.  GlobalString of a flag is the  *)
(* text of its current value, whatever the flag's type: for an IntFlag     *)
(* that was not given it is the text of the flag's default Value.          *)

GlobalStringSeed(c) == c.seed
GlobalIntFee(c) == IF c.fee = <<>> THEN DefaultFee ELSE c.fee[1]
GlobalStringFee(c) == ToString(GlobalIntFee(c))

----------------------------------------------------------------------------
(* Bitwise OR of two non-negative integers (Go's | on data.TransactionFlag) *)

RECURSIVE BitOr(_, _)
BitOr(a, b) ==
  IF a = 0 THEN b
  ELSE IF b = 0 THEN a
  ELSE (IF a % 2 = 1 \/ b % 2 = 1 THEN 1 ELSE 0) + 2 * BitOr(a \div 2, b \div 2)

OrIf(flags, selected, bit) == IF selected THEN BitOr(flags, bit) ELSE flags

\* payment: payment.Flags = new(TransactionFlag), then one |= per option
PaymentFlagsMut(c) ==
  OrIf(OrIf(OrIf(0, c.nodirect, TxNoDirectRipple),
            c.partial, TxNoDirectRipple),
       c.limit, TxLimitQuality)
PaymentFlags(c) ==
  OrIf(OrIf(OrIf(0, c.nodirect, TxNoDirectRipple),
            c.partial, TxPartialPayment),
       c.limit, TxLimitQuality)

\* trust: tx.Flags = new(TransactionFlag), then one |= per option
TrustFlags(c) ==
  OrIf(OrIf(OrIf(OrIf(OrIf(0, c.auth, TxSetAuth),
                      c.noripple, TxSetNoRipple),
                 c.clearNoripple, TxClearNoRipple),
            c.freeze, TxSetFreeze),
       c.clearFreeze, TxClearFreeze)

----------------------------------------------------------------------------
(* Conditions of the code *)

\* common: if c.GlobalString("seed") != ""
SeedGiven(c) == GlobalStringSeed(c) # ""

\* payment: if c.String("dest") == "" || c.String("amount") == "" || key == nil
PaymentMissingMut(c, k) == c.amount = "" \/ k = KeyNil
PaymentMissing(c, k) == c.dest = "" \/ c.amount = "" \/ k = KeyNil

\* trust: if c.String("amount") == "" || key == nil
TrustMissingMut(c, k) == c.amount = ""
TrustMissing(c, k) == c.amount = "" \/ k = KeyNil

\* sign: if c.GlobalString("fee") != ""
FeeGivenMut(c) == c.fee # <<>>
FeeGiven(c) == GlobalStringFee(c) # ""

\* sign: if c.GlobalInt("lastledger") > 0
LastLedgerGiven(c) == c.lastledger > 0

\* outputTx: if !c.GlobalBool("json")
WantsRaw(c) == ~c.json
\* outputTx: if c.GlobalBool("binary")
WantsBinary(c) == c.binary
\* outputTx: if c.GlobalBool("json") || !c.GlobalBool("binary")
WantsJsonMut(c) == ~c.binary
WantsJson(c) == c.json \/ ~c.binary
\* outputTx: if c.GlobalBool("submit")
WantsSubmitMut(c) == c.submit \/ c.cmd = "submit"
WantsSubmit(c) == c.submit

----------------------------------------------------------------------------
(* Library results.  An encoding is a tagged copy of the record encoded,   *)
(* so that two encodings are equal exactly when the records are.           *)

Raw(t) == [hash |-> <<"SHA512Half", t>>, raw |-> <<"bytes", t>>]
Marshal(t) == <<"json", t>>
AccountId(k) == <<"id", k.seed, 0>>
PublicKey(k) == <<"pub", k.seed, 0>>
Signature(k, t) == <<"sig", k.seed, 0, t>>

\* parseSeed: the cryptographic work done, by whether the seed decodes
ParseSeedWorkMut(ok) ==
  IF ok THEN {"decodeSeed", "rootKey", "accountKey"} ELSE {"decodeSeed"}
ParseSeedWork(ok) == IF ok THEN {"decodeSeed", "rootKey"} ELSE {"decodeSeed"}

(* Lines written to standard output *)
ErrorLine(m) == [kind |-> "Error", msg |-> m]
BinaryOut(t) == [kind |-> "Binary", raw |-> Raw(t).raw]
HashRawLine(t) == [kind |-> "HashRaw", hash |-> Raw(t).hash, raw |-> Raw(t).raw]
JsonLine(t) == [kind |-> "Json", doc |-> Marshal(t)]
ResultLine(code, message) == [kind |-> "Result", code |-> code, message |-> message]

PaymentRequiredMsg == "Destination, amount, and seed are required"
TrustRequiredMsg == "Amount and seed are required"

\* The status the process ends with after printing an engine result
SubmitExitCodeMut(code) == IF code = "tesSUCCESS" THEN 0 ELSE 1
SubmitExitCode(code) == 0

----------------------------------------------------------------------------
(* Ways a step ends the process *)

\* checkErr(err) with err != nil: print the message, os.Exit(1)
CheckErr(m, stage) ==
  /\ stdout' = Append(stdout, ErrorLine(m))
  /\ exitCode' = 1
  /\ failed' = stage
  /\ pc' = "exited"

\* os.Exit(code), or main returning (code 0), with no error
Exit(code) ==
  /\ exitCode' = code
  /\ pc' = "exited"

Init ==
  /\ IsConfig(cfg)
  /\ pc = "common"
  /\ key = KeyNil
  /\ tx = TxNil
  /\ stdout = <<>>
  /\ exitCode = 0
  /\ calls = <<>>
  /\ crypto = {}
  /\ failed = "none"
  /\ remote = NoReply

----------------------------------------------------------------------------
(* app.Before = common, with parseSeed inlined; then the command's Action  *)

Common ==
  /\ pc = "common"
  /\ IF SeedGiven(cfg)
     THEN /\ calls' = calls \o <<"common", "parseSeed">>
          /\ crypto' = crypto \cup ParseSeedWork(cfg.seed \in ValidSeeds)
          /\ IF cfg.seed \in ValidSeeds
             THEN /\ key' = RootKey(cfg.seed)
                  /\ pc' = cfg.cmd
                  /\ UNCHANGED <<stdout, exitCode, failed>>
             ELSE /\ CheckErr("Bad Base58 checksum", "seed")
                  /\ UNCHANGED key
     ELSE /\ calls' = Append(calls, "common")
          /\ pc' = cfg.cmd
          /\ UNCHANGED <<key, crypto, stdout, exitCode, failed>>
  /\ UNCHANGED <<cfg, tx, remote>>

----------------------------------------------------------------------------
(* payment, up to its call of sign.  --paths and --sendmax are left off    *)
(* the command line, so their branches are not taken.                      *)

BuildPayment(c) ==
  [ TxBase("Payment") EXCEPT
      !.Destination = c.dest, !.Amount = c.amount,
      !.Flags = <<PaymentFlags(c)>> ]

Payment ==
  /\ pc = "payment"
  /\ calls' = Append(calls, "payment")
  /\ IF PaymentMissing(cfg, key)
     THEN /\ stdout' = Append(stdout, ErrorLine(PaymentRequiredMsg))
          /\ failed' = "required"
          /\ Exit(1)
          /\ UNCHANGED tx
     ELSE IF cfg.dest \notin ValidAccounts
     THEN /\ CheckErr("Bad Base58 string", "fields")
          /\ UNCHANGED tx
     ELSE IF cfg.amount \notin ValidAmounts
     THEN /\ CheckErr("Bad amount", "fields")
          /\ UNCHANGED tx
     ELSE /\ tx' = BuildPayment(cfg)
          /\ pc' = "sign"
          /\ UNCHANGED <<stdout, exitCode, failed>>
  /\ UNCHANGED <<cfg, key, crypto, remote>>

----------------------------------------------------------------------------
(* trust, up to its call of sign.  --quality-in and --quality-out keep     *)
(* their default 1.0, stored scaled by 1e9.                                *)

QualityScaled(q) == q * 1000000000

BuildTrust(c) ==
  [ TxBase("TrustSet") EXCEPT
      !.Amount = c.amount,
      !.QualityOut = <<QualityScaled(1)>>, !.QualityIn = <<QualityScaled(1)>>,
      !.Flags = <<TrustFlags(c)>> ]

Trust ==
  /\ pc = "trust"
  /\ calls' = Append(calls, "trust")
  /\ IF TrustMissing(cfg, key)
     THEN /\ stdout' = Append(stdout, ErrorLine(TrustRequiredMsg))
          /\ failed' = "required"
          /\ Exit(1)
          /\ UNCHANGED tx
     ELSE IF cfg.amount \notin ValidAmounts
     THEN /\ CheckErr("Bad amount", "fields")
          /\ UNCHANGED tx
     ELSE /\ tx' = BuildTrust(cfg)
          /\ pc' = "sign"
          /\ UNCHANGED <<stdout, exitCode, failed>>
  /\ UNCHANGED <<cfg, key, crypto, remote>>

----------------------------------------------------------------------------
(* sign *)

\* The record after lines 60-77: every field sign sets, placeholder signature.
\* The uint32 conversions leave the bounded arguments as they are.
SignFields(c, t, k) ==
  [ t EXCEPT
      !.Sequence = c.sequence,
      !.SigningPubKey = <<PublicKey(k)>>,
      !.LastLedgerSequence =
          IF LastLedgerGiven(c) THEN <<c.lastledger>> ELSE @,
      !.Flags = IF @ = <<>> THEN <<0>> ELSE @,
      !.Account = AccountId(k),
      !.Fee = IF FeeGiven(c) THEN NewNativeValue(GlobalIntFee(c)) ELSE @,
      !.TxnSignature = <<"">> ]

SignOutcomes == {"ok", "keyError", "signError"}

Sign ==
  /\ pc = "sign"
  /\ calls' = Append(calls, "sign")
  /\ IF key = KeyNil
     THEN \* key.GenerateAccountKey on a nil key: the runtime panics, status 2
          /\ failed' = "panic"
          /\ Exit(2)
          /\ UNCHANGED <<tx, crypto, stdout>>
     ELSE \E outcome \in SignOutcomes :
            /\ crypto' = crypto \cup
                 (IF outcome = "keyError" THEN {"accountKey"}
                  ELSE {"accountKey", "sign"})
            /\ \/ /\ outcome = "keyError"
                  /\ CheckErr("key derivation failed", "sign")
                  /\ UNCHANGED tx
               \/ /\ outcome = "signError"
                  /\ tx' = SignFields(cfg, tx, key)
                  /\ CheckErr("signing failed", "sign")
               \/ /\ outcome = "ok"
                  /\ tx' = [ SignFields(cfg, tx, key) EXCEPT
                               !.TxnSignature =
                                  <<Signature(key, SignFields(cfg, tx, key))>> ]
                  /\ pc' = "outputTx"
                  /\ UNCHANGED <<stdout, exitCode, failed>>
  /\ UNCHANGED <<cfg, key, remote>>

----------------------------------------------------------------------------
(* submit: read a transaction from standard input and hand it to outputTx  *)

Submit ==
  /\ pc = "submit"
  /\ calls' = Append(calls, "submit")
  /\ IF cfg.stdin = "signedTx"
     THEN /\ tx' = StdinTx
          /\ pc' = "outputTx"
          /\ UNCHANGED <<stdout, exitCode, failed>>
     ELSE /\ CheckErr("unexpected EOF", "stdin")
          /\ UNCHANGED tx
  /\ UNCHANGED <<cfg, key, crypto, remote>>

----------------------------------------------------------------------------
(* outputTx, in its three parts, and submitTx, in its two calls            *)

OutputTxRaw ==
  /\ pc = "outputTx"
  /\ calls' = Append(calls, "outputTx")
  /\ IF WantsRaw(cfg)
     THEN \E ok \in BOOLEAN :
            IF ok
            THEN /\ stdout' = Append(stdout,
                       IF WantsBinary(cfg) THEN BinaryOut(tx) ELSE HashRawLine(tx))
                 /\ pc' = "outputJson"
                 /\ UNCHANGED <<exitCode, failed>>
            ELSE CheckErr("encoding failed", "raw")
     ELSE /\ pc' = "outputJson"
          /\ UNCHANGED <<stdout, exitCode, failed>>
  /\ UNCHANGED <<cfg, key, tx, crypto, remote>>

OutputTxJson ==
  /\ pc = "outputJson"
  /\ IF WantsJson(cfg)
     THEN \E ok \in BOOLEAN :
            IF ok
            THEN /\ stdout' = Append(stdout, JsonLine(tx))
                 /\ pc' = "outputSubmit"
                 /\ UNCHANGED <<exitCode, failed>>
            ELSE CheckErr("json: error calling MarshalJSON", "marshal")
     ELSE /\ pc' = "outputSubmit"
          /\ UNCHANGED <<stdout, exitCode, failed>>
  /\ UNCHANGED <<cfg, key, tx, calls, crypto, remote>>

OutputTxSubmit ==
  /\ pc = "outputSubmit"
  /\ IF WantsSubmit(cfg)
     THEN /\ calls' = Append(calls, "submitTx")
          /\ pc' = "connect"
          /\ UNCHANGED exitCode
     ELSE \* outputTx, the command and main return
          /\ Exit(0)
          /\ UNCHANGED calls
  /\ UNCHANGED <<cfg, key, tx, stdout, crypto, failed, remote>>

\* websockets.NewRemote
SubmitTxConnect ==
  /\ pc = "connect"
  /\ \E ok \in BOOLEAN :
       IF ok
       THEN /\ pc' = "send"
            /\ UNCHANGED <<stdout, exitCode, failed, remote>>
       ELSE /\ remote' = TransportError(ConnectError)
            /\ CheckErr(ConnectError, "transport")
  /\ UNCHANGED <<cfg, key, tx, calls, crypto>>

\* r.Submit, then the result line and os.Exit(0)
SubmitTxSend ==
  /\ pc = "send"
  /\ \/ \E r \in EngineResults :
          /\ remote' = Reply(r)
          /\ stdout' = Append(stdout, ResultLine(r.code, r.message))
          /\ Exit(SubmitExitCode(r.code))
          /\ UNCHANGED failed
     \/ /\ remote' = TransportError(SubmitError)
        /\ CheckErr(SubmitError, "transport")
  /\ UNCHANGED <<cfg, key, tx, calls, crypto>>

----------------------------------------------------------------------------

Next ==
  \/ Common
  \/ Payment
  \/ Trust
  \/ Submit
  \/ Sign
  \/ OutputTxRaw
  \/ OutputTxJson
  \/ OutputTxSubmit
  \/ SubmitTxConnect
  \/ SubmitTxSend

Spec == Init /\ [][Next]_vars

----------------------------------------------------------------------------
(* Vocabulary of the properties *)

Called(f) == \E i \in 1..Len(calls) : calls[i] = f
TimesCalled(f) == Cardinality({i \in 1..Len(calls) : calls[i] = f})
IsTxOutput(l) == l.kind \in {"Binary", "HashRaw", "Json"}
TxOutput == SelectSeq(stdout, IsTxOutput)
Written(kind) == \E i \in 1..Len(stdout) : stdout[i].kind = kind
Exited == pc = "exited"
Building == cfg.cmd \in {"payment", "trust"}
SignCompleted == Called("sign") /\ failed \notin {"sign", "panic"}

\* What outputTx writes for a record, by the json and binary options
EncodedFor(c, t) ==
  IF c.json THEN <<JsonLine(t)>>
  ELSE IF c.binary THEN <<BinaryOut(t)>>
  ELSE <<HashRawLine(t), JsonLine(t)>>

\* outputTx is past its encoding part, and no local error ended it
EncodingDone ==
  \/ pc \in {"outputSubmit", "connect", "send"}
  \/ Exited /\ Called("outputTx") /\ failed \in {"none", "transport"}

----------------------------------------------------------------------------
(* C1: the Flags of a built transaction are the sum (= bitwise OR, the     *)
(* bits of one type being distinct) of the bits of exactly the selected    *)
(* options: nodirect, partial, limit for a payment; auth, noripple,        *)
(* clear-noripple, freeze, clear-freeze for a trust line; zero when none   *)
(* is selected; and they are the same after sign as before it.             *)

Bit(selected, bit) == IF selected THEN bit ELSE 0

SelectedBits(c) ==
  IF c.cmd = "payment"
  THEN Bit(c.nodirect, TxNoDirectRipple) + Bit(c.partial, TxPartialPayment)
       + Bit(c.limit, TxLimitQuality)
  ELSE Bit(c.auth, TxSetAuth) + Bit(c.noripple, TxSetNoRipple)
       + Bit(c.clearNoripple, TxClearNoRipple) + Bit(c.freeze, TxSetFreeze)
       + Bit(c.clearFreeze, TxClearFreeze)

C1_FlagsAreSelectedBits ==
  (Building /\ tx # TxNil) => tx.Flags = <<SelectedBits(cfg)>>

C1_Witness ==
  /\ cfg.cmd = "payment" /\ cfg.nodirect /\ cfg.partial /\ ~cfg.limit
  /\ SignCompleted
  /\ tx.Flags = <<TxNoDirectRipple + TxPartialPayment>>

(* C2: payment entered with an empty destination or amount, and trust      *)
(* entered with an empty amount, end the run at once with status 1 and the *)
(* required-fields message as the only thing written; such a run never     *)
(* enters sign or outputTx and writes no transaction output.               *)

RequiredMissing ==
  \/ cfg.cmd = "payment" /\ (cfg.dest = "" \/ cfg.amount = "")
  \/ cfg.cmd = "trust" /\ cfg.amount = ""

RequiredMsg == IF cfg.cmd = "payment" THEN PaymentRequiredMsg ELSE TrustRequiredMsg

C3_NoSeedNoSign ==
  /\ Called("sign") => key # KeyNil /\ key = RootKey(cfg.seed)
  /\ (Building /\ cfg.seed = "") =>
       /\ ~Called("sign") /\ ~Called("outputTx") /\ ~Called("submitTx")
       /\ tx = TxNil /\ crypto = {} /\ TxOutput = <<>>
       /\ Exited => exitCode = 1

C3_Witness ==
  /\ cfg.cmd = "trust" /\ cfg.seed = "" /\ cfg.amount \in ValidAmounts
  /\ Called("trust") /\ Exited /\ exitCode = 1

(* C4: a run ended by an error has status other than 0, and nothing of the *)
(* failed stage has been written: no transaction output when parsing or    *)
(* signing failed, no bytes or hash line when the canonical encoding       *)
(* failed, and neither a JSON document nor a hash line left without its    *)
(* JSON document when the JSON encoding failed.                            *)

C4_NoOutputOfFailedStage ==
  (Exited /\ failed # "none") =>
    /\ exitCode # 0
    /\ failed \in {"seed", "required", "fields", "stdin", "sign"} => TxOutput = <<>>
    /\ failed = "raw" => ~Written("Binary") /\ ~Written("HashRaw")
    /\ failed = "marshal" => ~Written("Json") /\ ~Written("HashRaw")

(* C5: submitTx is entered at most once, only with the submit option set,  *)
(* and only when the output the options select has been written in full;   *)
(* whatever the submission does afterwards, that output stays as written.  *)

C6_SubmissionPassThrough ==
  /\ remote.type = "result" =>
       /\ Exited /\ exitCode = 0 /\ failed = "none"
       /\ stdout[Len(stdout)] = ResultLine(remote.code, remote.message)
       /\ Cardinality({i \in 1..Len(stdout) : stdout[i].kind = "Result"}) = 1
       /\ ~Written("Error")
  /\ remote.type = "error" =>
       /\ Exited /\ exitCode = 1 /\ failed = "transport"
       /\ stdout[Len(stdout)] = ErrorLine(remote.message)
       /\ ~Written("Result")

C6_Witness ==
  /\ remote.type = "result" /\ remote.code = "tecPATH_DRY"
  /\ Exited /\ exitCode = 0
  /\ Written("Result")

(* C7 as stated: once the encoding part of outputTx is done, the bytes are *)
(* written exactly when binary is selected and the JSON document exactly   *)
(* when json is selected (both when both are), the hash line and the JSON  *)
(* document when neither is.                                               *)

ClaimedKinds(c) ==
  IF c.binary \/ c.json
  THEN {k \in {"Binary"} : c.binary} \cup {k \in {"Json"} : c.json}
  ELSE {"HashRaw", "Json"}

C8_FeeAlwaysSet ==
  (Building /\ SignCompleted) =>
    /\ tx.Fee = NewNativeValue(IF cfg.fee = <<>> THEN DefaultFee ELSE cfg.fee[1])
    /\ tx.Fee # ZeroValue

C8_Witness ==
  /\ Building /\ SignCompleted /\ cfg.fee = <<>>
  /\ tx.Fee = NewNativeValue(DefaultFee)

(* C9: the submit command never enters sign and never changes the record   *)
(* read; malformed input ends the run with nothing written but the error;  *)
(* and a run on well-formed input that no local error ended has submitted  *)
(* the transaction.                                                        *)

C9_SubmitCommandSubmits ==
  cfg.cmd = "submit" =>
    /\ ~Called("sign") /\ crypto \subseteq {"decodeSeed", "rootKey"}
    /\ tx \in {TxNil, StdinTx}
    /\ cfg.stdin = "garbage" => TxOutput = <<>> /\ ~Called("submitTx")
    /\ (cfg.stdin = "signedTx" /\ Exited /\ failed \in {"none", "transport"})
         => Called("submitTx")

(* C10 as stated: in a payment or trust run no key is derived (root key or *)
(* account key) and nothing is signed before the required-field check has  *)
(* passed, and a run that fails that check has derived no key.             *)

ValidationPassed == Called(cfg.cmd) /\ failed # "required"

KeyWork == {"rootKey", "accountKey", "sign"}

C10_NoCryptoBeforeValidation ==
  Building =>
    /\ crypto \cap KeyWork # {} => ValidationPassed
    /\ failed = "required" => crypto \cap KeyWork = {}

(* C10 amended: no account key is derived and nothing is signed before the *)
(* required-field check has passed; decoding the seed and deriving the     *)
(* root key come first, in common, so a run that fails the required-field  *)
(* check has done at most those.                                           *)

C10_NoSigningBeforeValidation ==
  Building =>
    /\ crypto \cap {"accountKey", "sign"} # {} =>
         ValidationPassed /\ ~RequiredMissing
    /\ failed = "required" => crypto \subseteq {"decodeSeed", "rootKey"}
    /\ (cfg.seed \in ValidSeeds /\ calls # <<>>) =>
         {"decodeSeed", "rootKey"} \subseteq crypto

C10_Witness ==
  /\ cfg.cmd = "payment" /\ cfg.dest = ""
  /\ failed = "required"
  /\ crypto = {"decodeSeed", "rootKey"}

====
